---- MODULE Spec2Model ----
(***************************************************************************)
(* A model of flexml's ModelTuner (src/flexml/_model_tuner.py): one call   *)
(* of grid_search, random_search or optuna_search on a constructed tuner.  *)
(*                                                                         *)
(* Python's None is the empty sequence <<>> and a present value x is the   *)
(* one-element sequence <<x>>, so that optional fields compare safely.     *)
(* A fitted model object is a record saying which fit produced it.         *)
(* Scores are small positive integers (only their order matters to the     *)
(* code).  Exceptions are named by their Python class.                     *)
(***************************************************************************)
EXTENDS Integers, Sequences, FiniteSets, TLC

\* ------------------------------------------------------------------ bounds
MaxTrials == 2      \* largest n_trials a call is given
MaxScore  == 2      \* scores range over 1..MaxScore
MaxVal    == 2      \* numeric candidate values range over 0..MaxVal
MaxLen    == 2      \* longest candidate sequence of a parameter

None == <<>>
Some(x) == <<x>>

Trials == 1..MaxTrials
Scores == 1..MaxScore

\* ------------------------------------------------------- metric selectors
\* The selectors a call may be given: the seven documented ones, two
\* differently-cased spellings and one unknown name.
Metrics == {"r2", "mae", "mse", "accuracy", "precision", "recall", "f1",
            "R2", "MSE", "rmse"}

\* str.lower() on the selectors above.
Lower(s) ==
    CASE s = "R2"  -> "r2"
      [] s = "MSE" -> "mse"
      [] OTHER     -> s

\* The cases of the match statement of _model_evaluator that return a score.
EvaluatorCases == {"r2", "mae", "mse", "accuracy", "precision", "recall", "f1"}

\* _model_evaluator: TRUE when the match statement reaches a scoring case,
\* FALSE when it falls to `case _` and raises ValueError.
EvaluatorAccepts(eval_metric) == Lower(eval_metric) \in EvaluatorCases

\* The direction optuna_search hands to optuna.create_study.
StudyDirection(eval_metric) ==
    IF eval_metric \in {"r2", "accuracy", "precision", "recall", "f1"}
    THEN "maximize" ELSE "minimize"

\* --------------------------------------------------- parameter candidates
\* A candidate value carries its Python type; val is its numeric value (or
\* an index for strings).  "tuple" stands for any type other than str,
\* bool, int and float.  Floats are sampled on the grid of whole values.
Value(t, v) == [type |-> t, val |-> v]

CandidateValues ==
    {Value("str", v) : v \in 0..1} \cup {Value("bool", v) : v \in 0..1} \cup
    {Value("int", v) : v \in 0..MaxVal} \cup {Value("float", v) : v \in 0..MaxVal} \cup
    {Value("tuple", 0)}

\* isinstance(x, cls): bool is a subclass of int in Python.
IsInstance(x, cls) ==
    \/ x.type = cls
    \/ cls = "int" /\ x.type = "bool"

\* SuggestionRule with the integer test placed before the boolean test.
SuggestionRule_IntFirst(param_values) ==
    LET first_element == param_values[1] IN
    IF IsInstance(first_element, "int") THEN "int"
    ELSE IF IsInstance(first_element, "str") \/ IsInstance(first_element, "bool")
        THEN "categorical"
    ELSE IF IsInstance(first_element, "float") THEN "float"
    ELSE "unsupported"

\* The branch of the type dispatch of objective() taken for a candidate
\* sequence: the type of its first element decides.
SuggestionRule(param_values) ==
    LET first_element == param_values[1] IN
    IF IsInstance(first_element, "str") \/ IsInstance(first_element, "bool")
        THEN "categorical"
    ELSE IF IsInstance(first_element, "int") THEN "int"
    ELSE IF IsInstance(first_element, "float") THEN "float"
    ELSE "unsupported"

\* The bounds handed to suggest_int / suggest_float: first and last element.
Low(param_values)  == param_values[1]
High(param_values) == param_values[Len(param_values)]

IsNumber(x) == x.type \in {"bool", "int", "float"}

\* What one trial's suggestion for a parameter can be: "value" with the
\* set of values the trial may be handed, "raise" when optuna rejects the
\* bounds (a non-numeric bound, or low > high), "unsupported" when the
\* else branch is taken.
Suggest(param_values) ==
    LET rule == SuggestionRule(param_values)
        lo == Low(param_values)
        hi == High(param_values)
    IN  CASE rule = "categorical" ->
               [kind |-> "value", rule |-> rule,
                values |-> {param_values[i] : i \in 1..Len(param_values)}]
          [] rule = "unsupported" ->
               [kind |-> "unsupported", rule |-> rule, values |-> {}]
          [] OTHER ->
               IF ~IsNumber(hi) \/ lo.val > hi.val
               THEN [kind |-> "raise", rule |-> rule, values |-> {}]
               ELSE [kind |-> "value", rule |-> rule,
                     values |-> {Value(rule, v) : v \in lo.val..hi.val}]

\* ------------------------------------------------------------- call inputs
\* Parameter spaces (dicts from parameter name to candidate sequence): an
\* integer range, a space with one parameter of an unsupported type, and a
\* float range whose last candidate lies below its first.
GridInt == [n_estimators |-> <<Value("int", 0), Value("int", MaxVal)>>]
GridUnsupported ==
    [n_estimators |-> <<Value("int", 0), Value("int", MaxVal)>>,
     hidden_layer_sizes |-> <<Value("tuple", 0)>>]
GridBadRange == [C |-> <<Value("float", 1), Value("float", 0)>>]
ParamGrids == {GridInt, GridUnsupported, GridBadRange}

CVs == {2, 3}
NJobs == {-1, 1, 2}
Timeouts == {None, Some(1)}

VARIABLES
    logger_callable,  \* whether the object get_logger returned can be called
    method,           \* the entry point called
    param_grid, eval_metric, n_trials, cv, n_jobs, timeout,   \* its arguments
    model_stats,      \* the dict the entry point builds and returns
    study_direction,  \* optuna_search: the direction given to create_study
    search_result,    \* grid/random: outcome of the back-end search
    pc,               \* optuna_search: where each trial's objective() stands
    params,           \* optuna_search: names in each trial's params dict
    score,            \* optuna_search: each trial's score
    exc,              \* optuna_search: the exception a trial ended with
    timed_out,        \* optuna_search: the timeout has expired
    returned,         \* what the caller got: pending, record, None, raised
    error,            \* the exception class raised to the caller
    param_values,     \* suggestion rule alone: a candidate sequence
    suggestion        \* suggestion rule alone: the value a trial was handed

vars == <<logger_callable, method, param_grid, eval_metric, n_trials, cv, n_jobs,
          timeout, model_stats, study_direction, search_result, pc, params, score,
          exc, timed_out, returned, error, param_values, suggestion>>

args == <<logger_callable, method, param_grid, eval_metric, n_trials, cv, n_jobs,
          timeout, study_direction>>
trial_vars == <<pc, params, score, exc, timed_out>>
suggest_vars == <<param_values, suggestion>>

\* A fitted model object: the estimator the back-end search refitted, or
\* the fresh instance trial t fitted.
BestEstimator == [fitted_by |-> "search", trial |-> 0]
TestModel(t)  == [fitted_by |-> "objective", trial |-> t]

\* The dict literal each entry point starts from.
InitialStats(tuning_method, grid, folds, jobs) ==
    [tuning_method |-> tuning_method,
     tuning_param_grid |-> grid,
     cv |-> folds,
     n_jobs |-> jobs,
     tuned_model |-> None,
     tuned_model_score |-> None,
     tuned_model_evaluation_metric |-> None]

NoTrials ==
    /\ pc = [t \in Trials |-> "pending"]
    /\ params = [t \in Trials |-> {}]
    /\ score = [t \in Trials |-> None]
    /\ exc = [t \in Trials |-> None]
    /\ timed_out = FALSE

NotReturned ==
    /\ search_result = None
    /\ returned = "pending"
    /\ error = None

\* The tuner is constructed and one entry point has been entered with its
\* arguments bound and its model_stats dict built.
Init ==
    /\ logger_callable \in BOOLEAN
    /\ param_grid \in ParamGrids
    /\ eval_metric \in Metrics
    /\ n_jobs \in NJobs
    /\ \/ /\ method = "grid_search"
          /\ cv \in {Some(c) : c \in CVs}
          /\ n_trials = None
          /\ timeout = None
          /\ study_direction = None
          /\ model_stats = InitialStats("GridSearchCV", param_grid, cv, n_jobs)
       \/ /\ method = "random_search"
          /\ cv \in {Some(c) : c \in CVs}
          /\ n_trials \in {Some(n) : n \in 1..MaxTrials}
          /\ timeout = None
          /\ study_direction = None
          /\ model_stats = InitialStats("RandomizedSearchCV", param_grid, cv, n_jobs)
       \/ /\ method = "optuna_search"
          /\ cv = None
          /\ n_trials \in {Some(n) : n \in 0..MaxTrials}
          /\ timeout \in Timeouts
          /\ study_direction = Some(StudyDirection(eval_metric))
          /\ model_stats = InitialStats("Optuna", param_grid, None, n_jobs)
    /\ NoTrials
    /\ NotReturned
    /\ param_values = None
    /\ suggestion = None

\* ------------------------------------------------- grid_search, random_search
\* _param_grid_validator returns its argument as it is.
ParamGridValidator(grid) == grid

\* GridSearchCV(...).fit / RandomizedSearchCV(...).fit on a parameter space:
\* the search either succeeds (TRUE) or raises (FALSE).
BackendSearch(grid) == BOOLEAN

\* TryExcept with an except clause that returns the dict instead of None.
TryExcept_ReturnsStats(stats, metric, search_ok, s) ==
    IF ~search_ok
    THEN [stats |-> stats, returned |-> "record", error |-> None,
          search_result |-> Some("raised")]
    ELSE LET with_model == [stats EXCEPT !.tuned_model = Some(BestEstimator)] IN
         IF ~EvaluatorAccepts(metric)
         THEN [stats |-> with_model, returned |-> "record", error |-> None,
               search_result |-> Some("fitted")]
         ELSE [stats |-> [with_model EXCEPT !.tuned_model_score = Some(s),
                                            !.tuned_model_evaluation_metric = Some(metric)],
               returned |-> "record", error |-> None,
               search_result |-> Some("fitted")]

\* TryExcept with the re-scoring placed after the try block, so that the
\* evaluator's ValueError reaches the caller.
TryExcept_ScoreOutside(stats, metric, search_ok, s) ==
    IF ~search_ok
    THEN [stats |-> stats, returned |-> "None", error |-> None,
          search_result |-> Some("raised")]
    ELSE LET with_model == [stats EXCEPT !.tuned_model = Some(BestEstimator)] IN
         IF ~EvaluatorAccepts(metric)
         THEN [stats |-> with_model, returned |-> "raised", error |-> Some("ValueError"),
               search_result |-> Some("fitted")]
         ELSE [stats |-> [with_model EXCEPT !.tuned_model_score = Some(s),
                                            !.tuned_model_evaluation_metric = Some(metric)],
               returned |-> "record", error |-> None,
               search_result |-> Some("fitted")]

\* The try block and the except clause shared by grid_search and
\* random_search.  search_ok: the back-end search and refit succeeded;
\* s: the score the evaluator computes for the best estimator.  Gives the
\* dict as the statements left it, what the caller gets, and the back-end
\* outcome.
TryExcept(stats, metric, search_ok, s) ==
    IF ~search_ok
    THEN \* the search raises: except Exception logs and returns None
         [stats |-> stats, returned |-> "None", error |-> None,
          search_result |-> Some("raised")]
    ELSE LET with_model == [stats EXCEPT !.tuned_model = Some(BestEstimator)] IN
         IF ~EvaluatorAccepts(metric)
         THEN \* _model_evaluator raises ValueError inside the try block
              [stats |-> with_model, returned |-> "None", error |-> None,
               search_result |-> Some("fitted")]
         ELSE [stats |-> [with_model EXCEPT !.tuned_model_score = Some(s),
                                            !.tuned_model_evaluation_metric = Some(metric)],
               returned |-> "record", error |-> None,
               search_result |-> Some("fitted")]

GridSearch ==
    /\ method = "grid_search"
    /\ returned = "pending"
    /\ \E search_ok \in BackendSearch(param_grid), s \in Scores :
          LET out == TryExcept(model_stats, eval_metric, search_ok, s) IN
          /\ model_stats' = out.stats
          /\ returned' = out.returned
          /\ error' = out.error
          /\ search_result' = out.search_result
    /\ UNCHANGED <<args, trial_vars, suggest_vars>>

RandomSearch ==
    /\ method = "random_search"
    /\ returned = "pending"
    /\ \E search_ok \in BackendSearch(ParamGridValidator(param_grid)), s \in Scores :
          LET out == TryExcept(model_stats, eval_metric, search_ok, s) IN
          /\ model_stats' = out.stats
          /\ returned' = out.returned
          /\ error' = out.error
          /\ search_result' = out.search_result
    /\ UNCHANGED <<args, trial_vars, suggest_vars>>

\* -------------------------------------------------------------- optuna_search
\* Trials in flight at once: n_jobs workers, and with n_jobs = -1 as many
\* as the machine has execution units, which may be every trial.
Workers == IF n_jobs = -1 THEN MaxTrials ELSE n_jobs

Started  == {t \in Trials : pc[t] # "pending"}
Finished == {t \in Trials : pc[t] \in {"done", "raised"}}
Running  == Started \ Finished
Raised   == {t \in Trials : pc[t] = "raised"}

\* The else branch of the type dispatch calls the logger object itself,
\* self.logger(info_msg), not one of its methods.  The object comes from
\* flexml.logger.get_logger: if it can be called the call returns and the
\* loop goes on without the parameter, if not (as for a standard
\* logging.Logger) the call raises TypeError.
LoggerCall(callable) == IF callable THEN "returns" ELSE "TypeError"

\* The exceptions the parameter loop of objective() can end with: optuna
\* rejecting a range, or the call of the logger object in the else branch.
LoopErrors(grid, callable) ==
    {"ValueError" : p \in {q \in DOMAIN grid : Suggest(grid[q]).kind = "raise"}}
    \cup
    {"TypeError" : p \in {q \in DOMAIN grid :
                            /\ Suggest(grid[q]).kind = "unsupported"
                            /\ LoggerCall(callable) = "TypeError"}}

\* The keys of the params dict when the loop ends normally.
AssignedParams(grid) == {p \in DOMAIN grid : Suggest(grid[p]).kind = "value"}

\* What the local part of objective() (parameter loop, fit, evaluation)
\* can end with for one trial: an exception class, or a score.
ObjectiveOutcomes(grid, callable, metric) ==
    IF LoopErrors(grid, callable) # {}
    THEN {[raised |-> Some(e), score |-> None] : e \in LoopErrors(grid, callable)}
    ELSE {[raised |-> Some("FitError"), score |-> None]}     \* test_model.fit fails
         \cup
         (IF ~EvaluatorAccepts(metric)
          THEN {[raised |-> Some("ValueError"), score |-> None]}
          ELSE {[raised |-> None, score |-> Some(s)] : s \in Scores})

\* study.optimize starts the next trial on a free worker; the trial runs
\* objective() up to the evaluation of its score.
StartTrial(t) ==
    /\ method = "optuna_search"
    /\ returned = "pending"
    /\ pc[t] = "pending"
    /\ \A u \in Trials : u < t => pc[u] # "pending"
    /\ t <= n_trials[1]
    /\ ~timed_out
    /\ Cardinality(Running) < Workers
    /\ n_jobs = 1 => Raised = {}
    /\ \E out \in ObjectiveOutcomes(param_grid, logger_callable, eval_metric) :
          /\ params' = [params EXCEPT ![t] = AssignedParams(param_grid)]
          /\ score' = [score EXCEPT ![t] = out.score]
          /\ exc' = [exc EXCEPT ![t] = out.raised]
          /\ pc' = [pc EXCEPT ![t] = IF out.raised # None THEN "raised" ELSE "check_none"]
    /\ UNCHANGED <<args, model_stats, timed_out, search_result, returned, error,
                   suggest_vars>>

\* Better with a non-strict comparison.
Better_OrEqual(new, incumbent) == new >= incumbent

\* The replacement test of the incumbent update.
Better(new, incumbent) == new > incumbent

\* `model_stats['tuned_model_score'] is None`: the left operand of the or.
CheckNone(t) ==
    /\ pc[t] = "check_none"
    /\ pc' = [pc EXCEPT ![t] = IF model_stats.tuned_model_score = None
                               THEN "write_score" ELSE "compare"]
    /\ UNCHANGED <<args, model_stats, params, score, exc, timed_out, search_result,
                   returned, error, suggest_vars>>

\* `score > model_stats['tuned_model_score']`: the right operand, read anew.
Compare(t) ==
    /\ pc[t] = "compare"
    /\ pc' = [pc EXCEPT ![t] = IF Better(score[t][1], model_stats.tuned_model_score[1])
                               THEN "write_score" ELSE "done"]
    /\ UNCHANGED <<args, model_stats, params, score, exc, timed_out, search_result,
                   returned, error, suggest_vars>>

\* model_stats['tuned_model_score'] = score
WriteScore(t) ==
    /\ pc[t] = "write_score"
    /\ model_stats' = [model_stats EXCEPT !.tuned_model_score = score[t]]
    /\ pc' = [pc EXCEPT ![t] = "write_model"]
    /\ UNCHANGED <<args, params, score, exc, timed_out, search_result, returned, error,
                   suggest_vars>>

\* model_stats['tuned_model'] = test_model, then return score
WriteModel(t) ==
    /\ pc[t] = "write_model"
    /\ model_stats' = [model_stats EXCEPT !.tuned_model = Some(TestModel(t))]
    /\ pc' = [pc EXCEPT ![t] = "done"]
    /\ UNCHANGED <<args, params, score, exc, timed_out, search_result, returned, error,
                   suggest_vars>>

\* The timeout given to study.optimize expires: no further trial starts.
Timeout ==
    /\ method = "optuna_search"
    /\ returned = "pending"
    /\ timeout # None
    /\ ~timed_out
    /\ timed_out' = TRUE
    /\ UNCHANGED <<args, model_stats, pc, params, score, exc, search_result, returned,
                   error, suggest_vars>>

\* study.optimize ends once no trial is running and the budget is spent, the
\* timeout has expired or a trial has raised (no catch is given, so the
\* trial's exception leaves study.optimize and optuna_search); otherwise
\* optuna_search returns model_stats.
OptunaReturn ==
    /\ method = "optuna_search"
    /\ returned = "pending"
    /\ Running = {}
    /\ \/ Raised # {}
       \/ timed_out
       \/ Cardinality(Started) = n_trials[1]
    /\ IF Raised # {}
       THEN /\ returned' = "raised"
            /\ error' \in {exc[t] : t \in Raised}
       ELSE /\ returned' = "record"
            /\ error' = None
    /\ UNCHANGED <<args, model_stats, trial_vars, search_result, suggest_vars>>

Next ==
    \/ GridSearch
    \/ RandomSearch
    \/ \E t \in Trials : StartTrial(t)
    \/ \E t \in Trials : CheckNone(t)
    \/ \E t \in Trials : Compare(t)
    \/ \E t \in Trials : WriteScore(t)
    \/ \E t \in Trials : WriteModel(t)
    \/ Timeout
    \/ OptunaReturn

Spec == Init /\ [][Next]_vars

\* ------------------------------------------ the suggestion rule on its own
\* One parameter of a parameter space, with any candidate sequence, sampled
\* by one trial after another as the parameter loop of objective() does.
CandidateSeqs ==
    UNION {[1..n -> CandidateValues] : n \in 1..MaxLen}

NoValue == Value("NoneType", 0)

InitSuggest ==
    /\ logger_callable \in BOOLEAN
    /\ method = "optuna_search"
    /\ param_grid = GridInt
    /\ eval_metric = "r2"
    /\ n_jobs = 1
    /\ cv = None
    /\ n_trials = Some(0)
    /\ timeout = None
    /\ study_direction = Some(StudyDirection(eval_metric))
    /\ model_stats = InitialStats("Optuna", param_grid, None, n_jobs)
    /\ NoTrials
    /\ NotReturned
    /\ param_values \in CandidateSeqs
    /\ suggestion = None

\* One pass of the loop body for the parameter: the branch chosen from the
\* first element, and the value the trial's params dict gets (if any).
SuggestParam ==
    /\ param_values # None
    /\ LET sug == Suggest(param_values) IN
       CASE sug.kind = "value" ->
              \E v \in sug.values :
                 suggestion' = Some([kind |-> "value", rule |-> sug.rule, value |-> v])
         [] sug.kind = "raise" ->
              suggestion' = Some([kind |-> "ValueError", rule |-> sug.rule,
                                  value |-> NoValue])
         [] OTHER ->
              suggestion' = Some([kind |-> IF LoggerCall(logger_callable) = "returns"
                                           THEN "skipped" ELSE "TypeError",
                                  rule |-> sug.rule, value |-> NoValue])
    /\ UNCHANGED <<args, model_stats, trial_vars, search_result, returned, error,
                   param_values>>

NextSuggest == SuggestParam

SpecSuggest == InitSuggest /\ [][NextSuggest]_vars

\* ===================================================================== claims
Done == {t \in Trials : pc[t] = "done"}
MaxOf(S) == CHOOSE m \in S : \A x \in S : x <= m
IncumbentScore == model_stats.tuned_model_score
IncumbentModel == model_stats.tuned_model

\* C1: in optuna_search the incumbent score never decreases from one
\* update to the next when the metric is r2, accuracy, precision, recall
\* or f1 (direction maximize), and never increases when it is mae or mse
\* (direction minimize).  Stated for trials arriving one after another
\* (n_jobs = 1); interleaved updates are the subject of C2.
C1_IncumbentMonotone ==
    [][(/\ method = "optuna_search"
        /\ n_jobs = 1
        /\ IncumbentScore # None)
       => /\ (eval_metric \in {"r2", "accuracy", "precision", "recall", "f1"}
                /\ study_direction = Some("maximize"))
             => IncumbentScore'[1] >= IncumbentScore[1]
          /\ (eval_metric \in {"mae", "mse"} /\ study_direction = Some("minimize"))
             => IncumbentScore'[1] <= IncumbentScore[1]]_vars

\* C2: with trials on parallel workers (n_jobs # 1) the incumbent update is
\* mutually exclusive, so the record returned holds the best score of all
\* completed trials.  Stated for the maximize metrics, where the better
\* score is the greater one, as the code's own comparison has it.
C2_FinalIsBest ==
    (/\ method = "optuna_search"
     /\ n_jobs # 1
     /\ study_direction = Some("maximize")
     /\ returned = "record"
     /\ Done # {})
    => IncumbentScore = Some(MaxOf({score[t][1] : t \in Done}))

\* C3: every record returned by grid_search, random_search or
\* optuna_search has tuned_model and tuned_model_score both set or both
\* None, also after zero trials and after trials on parallel workers.
C3_ModelAndScoreTogether ==
    returned = "record" => ((IncumbentModel = None) <=> (IncumbentScore = None))

C3_Witness ==
    /\ method = "optuna_search"
    /\ n_jobs # 1
    /\ returned = "record"
    /\ Cardinality(Done) >= 2
    /\ IncumbentModel # None
    /\ IncumbentScore # None

\* C4: a call of any of the three entry points with a metric selector that
\* is none of the seven recognized ones ends with an error raised to the
\* caller, never with None or a record.
C4_UnknownMetricRaises ==
    (/\ returned # "pending"
     /\ Lower(eval_metric) \notin {"r2", "mae", "mse", "accuracy", "precision",
                                   "recall", "f1"})
    => returned = "raised"

\* C5: optuna_search on a parameter space with a parameter whose first
\* candidate is neither str, bool, int nor float raises to the caller: no
\* trial fits and scores a model with that parameter left out, and no
\* record is returned.
HasUnsupportedParam ==
    \E p \in DOMAIN param_grid :
       param_grid[p][1].type \notin {"str", "bool", "int", "float"}

C5_UnsupportedTypeRaises ==
    (method = "optuna_search" /\ HasUnsupportedParam)
    => /\ \A t \in Trials : score[t] # None => params[t] = DOMAIN param_grid
       /\ returned # "pending" => returned = "raised"

\* C6: grid_search and random_search never raise: when the back-end search
\* or the re-scoring of the best estimator fails the caller gets None,
\* never a partly filled record; on success the caller gets a record with
\* tuned_model, tuned_model_score and tuned_model_evaluation_metric set.
C6_SoftFailure ==
    (method \in {"grid_search", "random_search"} /\ returned # "pending")
    => /\ returned # "raised"
       /\ error = None
       /\ (search_result = Some("raised") \/ ~EvaluatorAccepts(eval_metric))
          => returned = "None"
       /\ (search_result = Some("fitted") /\ EvaluatorAccepts(eval_metric))
          => returned = "record"
       /\ returned = "record"
          => /\ IncumbentModel # None
             /\ IncumbentScore # None
             /\ model_stats.tuned_model_evaluation_metric # None

C6_Witness ==
    /\ method = "grid_search"
    /\ search_result = Some("fitted")
    /\ ~EvaluatorAccepts(eval_metric)
    /\ returned = "None"

\* C7: a record returned by a successful call (one that found a model) of
\* any of the three entry points holds the inputs of the call unchanged:
\* cv (grid_search and random_search), n_jobs, the metric name and the
\* parameter space.
C7_InputsEchoed ==
    (returned = "record" /\ IncumbentModel # None)
    => /\ model_stats.n_jobs = n_jobs
       /\ model_stats.tuning_param_grid = param_grid
       /\ model_stats.tuned_model_evaluation_metric = Some(eval_metric)
       /\ method \in {"grid_search", "random_search"} => model_stats.cv = cv

\* C8: ties keep the earliest-found model.  A trial that reaches the
\* replacement test with a score equal to the incumbent score ends without
\* writing tuned_model or tuned_model_score; and with trials arriving one
\* after another every trial completed before the one that fitted
\* tuned_model scored strictly lower than it.
C8_EarliestKept ==
    n_jobs = 1 =>
       \A t \in Trials :
          IncumbentModel = Some(TestModel(t))
          => \A u \in Done : u < t => score[u][1] < score[t][1]

C8_EqualScoreSkips ==
    \A t \in Trials :
       (pc[t] = "compare" /\ pc'[t] # "compare" /\ score[t] = IncumbentScore)
       => (pc'[t] = "done" /\ model_stats' = model_stats)

C8_TiesKeepEarliest == []C8_EarliestKept /\ [][C8_EqualScoreSkips]_vars

C8_Witness ==
    /\ n_jobs = 1
    /\ \E t, u \in Done :
          /\ t < u
          /\ score[t] = score[u]
          /\ IncumbentScore = score[u]
          /\ IncumbentModel = Some(TestModel(t))

\* C9: in the record optuna_search returns, tuned_model is the model
\* fitted by the trial whose score is tuned_model_score, under every
\* interleaving of parallel trials.
C9_ModelMatchesScore ==
    (method = "optuna_search" /\ returned = "record" /\ IncumbentModel # None)
    => score[IncumbentModel[1].trial] = IncumbentScore

\* C10: the suggestion rule of a parameter follows the type of its first
\* candidate alone: str or bool (bool before int) gives a categorical
\* choice and the value handed to the trial is one of the candidates; int
\* gives an integer range and float a continuous range, and the value
\* handed to the trial lies between the first and the last candidate.
C10_SuggestionRule ==
    suggestion # None =>
       LET first == param_values[1]
           last  == param_values[Len(param_values)]
           got   == suggestion[1]
       IN  /\ first.type \in {"str", "bool"}
              => /\ got.rule = "categorical"
                 /\ got.kind = "value"
                 /\ \E i \in 1..Len(param_values) : got.value = param_values[i]
           /\ first.type = "int"
              => /\ got.rule = "int"
                 /\ got.kind = "value"
                    => /\ got.value.type = "int"
                       /\ first.val <= got.value.val
                       /\ got.value.val <= last.val
           /\ first.type = "float"
              => /\ got.rule = "float"
                 /\ got.kind = "value"
                    => /\ got.value.type = "float"
                       /\ first.val <= got.value.val
                       /\ got.value.val <= last.val
           /\ got.kind = "value" => first.type \in {"str", "bool", "int", "float"}

\* An integer range hands a trial a value that was never declared.
C10_Witness ==
    /\ suggestion # None
    /\ suggestion[1].kind = "value"
    /\ suggestion[1].rule = "int"
    /\ Len(param_values) >= 2
    /\ \A i \in 1..Len(param_values) : param_values[i] # suggestion[1].value

\* C11: the direction optuna_search gives the study agrees with the metric
\* _model_evaluator computes: for every selector the evaluator accepts
\* (it matches in lower case, so 'R2' computes r2), once a trial has been
\* scored the direction is maximize when the metric computed is r2,
\* accuracy, precision, recall or f1, and minimize when it is mae or mse.
C11_DirectionMatchesMetric ==
    (/\ method = "optuna_search"
     /\ \E t \in Trials : score[t] # None)
    => /\ Lower(eval_metric) \in {"r2", "accuracy", "precision", "recall", "f1"}
          => study_direction = Some("maximize")
       /\ Lower(eval_metric) \in {"mae", "mse"}
          => study_direction = Some("minimize")
====
